---- MODULE Spec2Model ----
\* The interactive conversion session workflow of XML-Bridge: the client side
\* orchestrator InteractiveConverter (interactive.js), driven by DOM events and
\* talking to the remote resolver over six endpoints.
\*
\* Every invocation of an async handler is a task; a task runs atomically from
\* one await to the next.  The tasks in progress form a bag: handler invocations
\* have no identity beyond their position and locals.  A request in flight is a
\* task whose pc ends in "_wait"; the resolver answers it (the Server actions)
\* and the code after the await runs later (the Deliver actions).
EXTENDS Integers, Sequences, FiniteSets, Bags, TLC

\* ---------------------------------------------------------------- bounds
MaxTasks == 2
MaxSessions == 2
MaxPending == 2
MaxCount == 2
MaxOptions == 2

\* ------------------------------------------------------- option values
\* A string is a sequence of tokens; an Option is a string, a number or a
\* flat mapping of named scalar sub-values (an ordered list of fields).
Str(toks) == [tag |-> "str", s |-> toks, n |-> 0, fields |-> <<>>]

Num(k) == [tag |-> "num", s |-> <<>>, n |-> k, fields |-> <<>>]

Obj(fs) == [tag |-> "obj", s |-> <<>>, n |-> 0, fields |-> fs]

\* a scalar sub-value of a mapping: a string or a number
SStr(toks) == [tag |-> "str", s |-> toks, n |-> 0]

SNum(k) == [tag |-> "num", s |-> <<>>, n |-> k]

Field(key, val) == [k |-> key, v |-> val]

NumTok(k) == CASE k = 0 -> "0" [] k = 1 -> "1" [] k = 2 -> "2" [] OTHER -> "3"

IsNumTok(t) == t \in {"0", "1", "2", "3"}

TokNum(t) == CASE t = "0" -> 0 [] t = "1" -> 1 [] t = "2" -> 2 [] OTHER -> 3

\* JSON.stringify of a scalar sub-value
StringifyScalar(v) ==
    IF v.tag = "num" THEN <<NumTok(v.n)>> ELSE <<"\"">> \o v.s \o <<"\"">>

RECURSIVE StringifyFields(_)
StringifyFields(fs) ==
    IF fs = <<>> THEN <<>>
    ELSE <<"\"", Head(fs).k, "\"", ":">> \o StringifyScalar(Head(fs).v)
         \o (IF Tail(fs) = <<>> THEN <<>> ELSE <<",">> \o StringifyFields(Tail(fs)))

\* JSON.stringify(option) for an object option
JSONStringify(o) == <<"{">> \o StringifyFields(o.fields) \o <<"}">>

RECURSIVE StringifyFieldsIndented(_)
StringifyFieldsIndented(fs) ==
    IF fs = <<>> THEN <<>>
    ELSE <<"\n", " ", " ", "\"", Head(fs).k, "\"", ":", " ">> \o StringifyScalar(Head(fs).v)
         \o (IF Tail(fs) = <<>> THEN <<"\n">> ELSE <<",">> \o StringifyFieldsIndented(Tail(fs)))

\* JSON.stringify(choice, null, 2) for an object choice
JSONStringifyIndented(o) == <<"{">> \o StringifyFieldsIndented(o.fields) \o <<"}">>

\* optionBtn.dataset.value = typeof option === 'object' ? JSON.stringify(option) : option
\* (a dataset attribute holds a string: a number is stored as its decimal text)
DatasetValue(o) ==
    CASE o.tag = "obj" -> JSONStringify(o)
      [] o.tag = "num" -> <<NumTok(o.n)>>
      [] OTHER -> o.s

\* index of the first token t at or after position i (0 when there is none)
RECURSIVE FindTok(_, _, _)
FindTok(toks, t, i) ==
    IF i > Len(toks) THEN 0
    ELSE IF toks[i] = t THEN i ELSE FindTok(toks, t, i + 1)

ParseFail == [ok |-> FALSE, val |-> Str(<<>>), next |-> 0]

\* a JSON scalar starting at position i: "..." or a number token
ParseScalar(toks, i) ==
    IF i > Len(toks) THEN ParseFail
    ELSE IF toks[i] = "\"" THEN
        LET j == FindTok(toks, "\"", i + 1) IN
        IF j = 0 THEN ParseFail
        ELSE [ok |-> TRUE, val |-> Str(SubSeq(toks, i + 1, j - 1)), next |-> j + 1]
    ELSE IF IsNumTok(toks[i]) THEN [ok |-> TRUE, val |-> Num(TokNum(toks[i])), next |-> i + 1]
    ELSE ParseFail

\* the members of an object from position i on, after "{" or ","
RECURSIVE ParseMembers(_, _, _)
ParseMembers(toks, i, acc) ==
    IF i + 3 > Len(toks) \/ toks[i] # "\"" \/ toks[i + 2] # "\"" \/ toks[i + 3] # ":"
    THEN ParseFail
    ELSE LET v == ParseScalar(toks, i + 4) IN
         IF ~v.ok \/ v.next > Len(toks) THEN ParseFail
         ELSE LET fs == Append(acc, Field(toks[i + 1], [tag |-> v.val.tag, s |-> v.val.s, n |-> v.val.n]))
              IN  IF toks[v.next] = "}" /\ v.next = Len(toks)
                  THEN [ok |-> TRUE, val |-> Obj(fs), next |-> v.next + 1]
                  ELSE IF toks[v.next] = "," THEN ParseMembers(toks, v.next + 1, fs)
                  ELSE ParseFail

\* JSON.parse of a text that starts with "{"
JSONParse(toks) ==
    IF Len(toks) < 2 \/ toks[1] # "{" THEN ParseFail
    ELSE IF Len(toks) = 2 /\ toks[2] = "}" THEN [ok |-> TRUE, val |-> Obj(<<>>), next |-> 3]
    ELSE ParseMembers(toks, 2, <<>>)

\* resolveDecision: parse the clicked button's dataset value when it looks like
\* JSON, keep the string when it does not or when JSON.parse throws
ParseChoice(choice) ==
    IF choice # <<>> /\ choice[1] \in {"{", "["}
    THEN LET p == JSONParse(choice) IN IF p.ok THEN p.val ELSE Str(choice)
    ELSE Str(choice)

\* decision.default_option when the decision has none
Null == [tag |-> "null", s |-> <<>>, n |-> 0, fields |-> <<>>]

\* JSON.stringify of an option or default option of any type
StringifyOption(o) ==
    CASE o.tag = "obj" -> JSONStringify(o)
      [] o.tag = "num" -> <<NumTok(o.n)>>
      [] o.tag = "str" -> <<"\"">> \o o.s \o <<"\"">>
      [] OTHER -> <<"null">>

\* the value is truthy: null, 0 and the empty string are not
Truthy(o) ==
    CASE o.tag = "null" -> FALSE
      [] o.tag = "num" -> o.n # 0
      [] o.tag = "str" -> o.s # <<>>
      [] OTHER -> TRUE

\* option === decision.default_option: equal scalars of one type; two objects
\* parsed from the response are never the same object
StrictEquals(o, d) ==
    /\ o.tag = d.tag
    /\ o.tag \in {"str", "num"}
    /\ o.s = d.s /\ o.n = d.n

\* renderDecision: the option's button gets the class default-option and the
\* suffix ' (Recommended)'
IsDefaultOption(o, d) ==
    /\ Truthy(d)
    /\ StrictEquals(o, d) \/ StringifyOption(o) = StringifyOption(d)

\* ------------------------------------------------------ decision catalog
\* A Decision is immutable once issued, so its id determines it.  Decision k of
\* session s has id DecId(s, k); ids are unique across sessions.
DecId(s, k) == (s - 1) * MaxPending + k

DecSession(d) == ((d - 1) \div MaxPending) + 1

DecIndex(d) == ((d - 1) % MaxPending) + 1

OptStaccato == Obj(<<Field("articulation", SStr(<<"staccato">>)), Field("voice", SNum(2))>>)

OptLegato == Str(<<"legato">>)

OptTwo == Num(2)

\* decision.options of decision d
Options(d) ==
    IF DecIndex(d) % 2 = 1 THEN <<OptStaccato, OptLegato>> ELSE <<OptTwo>>

\* the artifact the transformation engine produces for session s
Artifact(s) == s

\* ------------------------------------------------------------------ state
VARIABLES
    sessionId,          \* this.sessionId (0 is null)
    conversionHistory,  \* this.conversionHistory
    currentFile,        \* window.converter.currentFile is set
    currentResult,      \* window.converter.currentResult (0 is null)
    panelVisible,       \* #interactive-panel is displayed
    containerVisible,   \* #decision-container is displayed
    panelDecision,      \* #decision-panel dataset.decisionId and its option buttons (0: empty)
    storePreference,    \* #store-preference is checked
    tasks,              \* the handler invocations in progress
    remote,             \* the resolver's sessions: status, pending queue, started empty
    okResolves,         \* per session id: resolve calls that returned success
    finalizeReqs,       \* per session id (0: null): force-complete requests issued
    resolveCompleted,   \* session ids for which a resolve returned completed
    cancelAcked,        \* session ids whose cancel request the resolver acknowledged
    startRejected,      \* the last click on #interactive-btn was refused: no file selected
    historyModal,       \* the conversion-history modal: open or not, and what it presents
    optionBtn,          \* the option button renderDecision built last, with its mark
    reviews             \* how many times the conversion history was presented

vars == <<sessionId, conversionHistory, currentFile, currentResult, panelVisible,
          containerVisible, panelDecision, storePreference, tasks, remote,
          okResolves, finalizeReqs, resolveCompleted, cancelAcked, startRejected,
          historyModal, optionBtn, reviews>>

dom == <<panelVisible, containerVisible, panelDecision, storePreference, historyModal,
         optionBtn>>

ghost == <<okResolves, finalizeReqs, resolveCompleted, cancelAcked, startRejected, reviews>>

SessionIds == 1..MaxSessions

NoReq == [sid |-> 0, did |-> 0, choice |-> Str(<<>>), save |-> FALSE]

\* no option button built yet
NoBtn == [built |-> FALSE, option |-> Null, default_option |-> Null, marked |-> FALSE]

\* no conversion-history modal in the document
NoModal == [open |-> FALSE, sid |-> 0, items |-> <<>>]

NoResp == [st |-> "none", sid |-> 0, n |-> 0, first |-> 0, completed |-> FALSE,
           info |-> FALSE, result |-> 0]

Init ==
    /\ sessionId = 0
    /\ conversionHistory = <<>>
    /\ currentFile = FALSE
    /\ currentResult = 0
    /\ panelVisible = FALSE
    /\ containerVisible = FALSE
    /\ panelDecision = 0
    /\ storePreference = FALSE
    /\ tasks = EmptyBag
    /\ remote = <<>>
    /\ okResolves = [s \in SessionIds \cup {0} |-> 0]
    /\ finalizeReqs = [s \in SessionIds \cup {0} |-> 0]
    /\ resolveCompleted = {}
    /\ cancelAcked = {}
    /\ startRejected = FALSE
    /\ historyModal = NoModal
    /\ optionBtn = NoBtn
    /\ reviews = 0

\* ---------------------------------------------------------------- helpers
\* a new handler invocation can start
Room == BagCardinality(tasks) < MaxTasks

New(tk) == tasks (+) SetToBag({tk})

Become(tk, new) == (tasks (-) SetToBag({tk})) (+) SetToBag({new})

\* Utils.confirmAction's modal is open
ConfirmOpen == \E tk \in DOMAIN tasks : tk.pc = "confirm"

\* a modal is open: a .modal is a fixed full-page overlay above the page's controls
ModalOpen == ConfirmOpen \/ historyModal.open

Awaiting(tk, pc) == tk \in DOMAIN tasks /\ tk.pc = pc /\ tk.resp.st = "none"

\* what the code after an await can see: the resolver's answer once it has
\* answered, a failure status when the resolver rejects the request (it applies
\* nothing then, so the moment it does so is immaterial), or a rejected fetch
\* when the request or its answer is lost
Seen(tk, pc) ==
    IF tk \notin DOMAIN tasks \/ tk.pc # pc THEN {}
    ELSE {[NoResp EXCEPT !.st = "neterr"]}
         \cup (IF tk.resp.st = "none" THEN {[NoResp EXCEPT !.st = "fail"]}
               ELSE {tk.resp})

\* counters saturate at MaxCount
Bump(f, s) == [f EXCEPT ![s] = IF @ < MaxCount THEN @ + 1 ELSE @]

\* the client has recorded the completion of session sid: the result on display
\* is that session's artifact
Shown(sid) == sid # 0 /\ currentResult = Artifact(sid)

\* A task: the handler (kind), where it is suspended (pc), the request it
\* awaits (req), the resolver's answer (resp), and shown: whether the tracked
\* session's completion was already on display when cancelSession or
\* completeConversion was entered (kept for the properties, never read by the code)
Task(kind, pc, req, shown) ==
    [kind |-> kind, pc |-> pc, req |-> req, resp |-> NoResp, shown |-> shown]

\* await fetch(...) with the request's session id read from this.sessionId
Send(tk, pc, sid) ==
    Become(tk, Task(tk.kind, pc, [NoReq EXCEPT !.sid = sid],
                    CASE pc = "status_wait" -> Shown(sid)
                      [] pc = "complete_wait" -> tk.shown
                      [] OTHER -> FALSE))

\* the handler returns
Finish(tk) == tasks (-) SetToBag({tk})

\* ------------------------------------------------------------- user events
\* the user picks a file (converter.handleFileSelect sets currentFile)
SelectFile ==
    /\ ~ModalOpen
    /\ ~currentFile
    /\ currentFile' = TRUE
    /\ UNCHANGED <<sessionId, conversionHistory, currentResult, dom, tasks, remote, ghost>>

\* a startInteractiveConversion that does not look for a file
StartClickUnchecked ==
    /\ ~ModalOpen
    /\ Room
    /\ panelVisible' = TRUE
    /\ tasks' = New(Task("start", "start_wait", NoReq, FALSE))
    /\ startRejected' = ~currentFile
    /\ UNCHANGED <<sessionId, conversionHistory, currentFile, currentResult,
                   containerVisible, panelDecision, storePreference, historyModal, optionBtn, remote,
                   okResolves, finalizeReqs, resolveCompleted, cancelAcked, reviews>>

\* click on #interactive-btn: startInteractiveConversion up to its first await
StartClick ==
    /\ ~ModalOpen
    /\ IF ~currentFile
       THEN UNCHANGED <<panelVisible, tasks>>
       ELSE /\ Room
            /\ panelVisible' = TRUE
            /\ tasks' = New(Task("start", "start_wait", NoReq, FALSE))
    /\ startRejected' = ~currentFile
    /\ UNCHANGED <<sessionId, conversionHistory, currentFile, currentResult,
                   containerVisible, panelDecision, storePreference, historyModal, optionBtn, remote,
                   okResolves, finalizeReqs, resolveCompleted, cancelAcked, reviews>>

\* a resolve request that never asks to save the preference
ResolveRequestWithoutHint(sid, did, value, save) ==
    [sid |-> sid, did |-> did, choice |-> ParseChoice(value), save |-> FALSE]

\* the body of the resolve request: JSON.stringify({session_id, decision_id, choice, save_preference})
ResolveRequest(sid, did, value, save) ==
    [sid |-> sid, did |-> did, choice |-> ParseChoice(value), save |-> save]

\* click on the i-th .decision-option button: the delegated listener reads the
\* panel's decisionId and the button's dataset value, and resolveDecision runs
\* up to its await
OptionClick(i) ==
    /\ ~ModalOpen
    /\ panelVisible /\ containerVisible /\ panelDecision # 0
    /\ i \in 1..Len(Options(panelDecision))
    /\ Room
    /\ tasks' = New(Task("resolve", "resolve_wait",
                          ResolveRequest(sessionId, panelDecision,
                                         DatasetValue(Options(panelDecision)[i]),
                                         storePreference),
                          FALSE))
    /\ UNCHANGED <<sessionId, conversionHistory, currentFile, currentResult, dom, remote, ghost>>

\* the user ticks or unticks #store-preference (the change listener only edits
\* labels); the box only flows into save_preference, so Spec leaves it unticked
TogglePreference ==
    /\ ~ModalOpen
    /\ panelVisible /\ containerVisible /\ panelDecision # 0
    /\ storePreference' = ~storePreference
    /\ UNCHANGED <<sessionId, conversionHistory, currentFile, currentResult, panelVisible,
                   containerVisible, panelDecision, historyModal, optionBtn, tasks, remote, ghost>>

\* a cancelSession that sends the cancel request without asking
CancelClickUnconfirmed ==
    /\ ~ModalOpen
    /\ panelVisible
    /\ IF sessionId = 0
       THEN UNCHANGED tasks
       ELSE /\ Room
            /\ tasks' = New(Task("cancel", "cancel_wait", [NoReq EXCEPT !.sid = sessionId],
                                  Shown(sessionId)))
    /\ UNCHANGED <<sessionId, conversionHistory, currentFile, currentResult, dom, remote, ghost>>

\* click on #cancel-interactive: cancelSession up to await Utils.confirmAction
CancelClick ==
    /\ ~ModalOpen
    /\ panelVisible
    /\ IF sessionId = 0
       THEN UNCHANGED tasks
       ELSE /\ Room
            /\ tasks' = New(Task("cancel", "confirm", NoReq, Shown(sessionId)))
    /\ UNCHANGED <<sessionId, conversionHistory, currentFile, currentResult, dom, remote, ghost>>

\* click on #confirm-yes: the cancel request is sent with the session id read now
ConfirmYes(tk) ==
    /\ tk \in DOMAIN tasks
    /\ tk.pc = "confirm"
    /\ tasks' = Become(tk, Task("cancel", "cancel_wait", [NoReq EXCEPT !.sid = sessionId],
                                tk.shown))
    /\ UNCHANGED <<sessionId, conversionHistory, currentFile, currentResult, dom, remote, ghost>>

\* click on #confirm-no
ConfirmNo(tk) ==
    /\ tk \in DOMAIN tasks
    /\ tk.pc = "confirm"
    /\ tasks' = Finish(tk)
    /\ UNCHANGED <<sessionId, conversionHistory, currentFile, currentResult, dom, remote, ghost>>

\* the text of a history item's <pre>: an object is stringified with an indent
\* of 2, anything else is interpolated into the template as its string
HistoryChoice(choice) ==
    CASE choice.tag = "obj" -> JSONStringifyIndented(choice)
      [] choice.tag = "num" -> <<NumTok(choice.n)>>
      [] OTHER -> choice.s

\* this.conversionHistory.map((item, index) => ...): one .history-item per
\* entry, in order, headed 'Decision index + 1'
HistoryItems(h) == [i \in 1..Len(h) |-> [heading |-> i, choice |-> HistoryChoice(h[i].choice)]]

RECURSIVE Reverse(_)
Reverse(h) == IF h = <<>> THEN <<>> ELSE Append(Reverse(Tail(h)), Head(h))

\* a showConversionHistory that lists the newest entry first by reversing the
\* history array in place
ShowConversionHistoryNewestFirst ==
    /\ ~ModalOpen
    /\ panelVisible /\ currentResult # 0
    /\ conversionHistory' = Reverse(conversionHistory)
    /\ historyModal' = [open |-> TRUE, sid |-> sessionId,
                        items |-> HistoryItems(Reverse(conversionHistory))]
    /\ reviews' = IF reviews < MaxCount THEN reviews + 1 ELSE reviews
    /\ UNCHANGED <<sessionId, currentFile, currentResult, panelVisible,
                   containerVisible, panelDecision, storePreference, optionBtn, tasks, remote,
                   okResolves, finalizeReqs, resolveCompleted, cancelAcked, startRejected>>

\* click on #review-conversion, the button updateCompletionInfo puts into
\* #interactive-progress when a completion is recorded: showConversionHistory
ShowConversionHistory ==
    /\ ~ModalOpen
    /\ panelVisible /\ currentResult # 0
    /\ historyModal' = [open |-> TRUE, sid |-> sessionId,
                        items |-> HistoryItems(conversionHistory)]
    /\ reviews' = IF reviews < MaxCount THEN reviews + 1 ELSE reviews
    /\ UNCHANGED <<sessionId, conversionHistory, currentFile, currentResult, panelVisible,
                   containerVisible, panelDecision, storePreference, optionBtn, tasks, remote,
                   okResolves, finalizeReqs, resolveCompleted, cancelAcked, startRejected>>

\* click on .modal-close or outside the modal's content: modal.remove()
CloseHistory ==
    /\ historyModal.open
    /\ historyModal' = NoModal
    /\ UNCHANGED <<sessionId, conversionHistory, currentFile, currentResult, panelVisible,
                   containerVisible, panelDecision, storePreference, optionBtn, tasks, remote,
                   ghost>>

\* ------------------------------------------------ continuations after await
\* getNextDecision up to its await, called from a task of the given kind with
\* this.sessionId = sid: returns at once when the session id is null
GetNextDecision(tk, sid) ==
    IF sid = 0
    THEN /\ tasks' = Finish(tk)
    ELSE /\ tasks' = Send(tk, "decisions_wait", sid)

\* completeConversion up to its first await: the status request
CompleteConversion(tk, sid) ==
    /\ tasks' = Send(tk, "status_wait", sid)

\* a startInteractiveConversion that drops the tracked session when the start fails
DeliverStartDroppingSession(tk, r) ==
    /\ r \in Seen(tk, "start_wait")
    /\ IF r.st = "ok"
       THEN /\ sessionId' = r.sid
            /\ IF r.n > 0
               THEN GetNextDecision(tk, r.sid)
               ELSE CompleteConversion(tk, r.sid)
            /\ UNCHANGED panelVisible
       ELSE /\ panelVisible' = FALSE
            /\ tasks' = Finish(tk)
            /\ sessionId' = 0
    /\ UNCHANGED <<conversionHistory, currentFile, currentResult, containerVisible,
                   panelDecision, storePreference, historyModal, optionBtn, remote, ghost>>

\* startInteractiveConversion after await fetch('/interactive/start')
DeliverStart(tk, r) ==
    /\ r \in Seen(tk, "start_wait")
    /\ IF r.st = "ok"
       THEN /\ sessionId' = r.sid
            /\ IF r.n > 0
               THEN GetNextDecision(tk, r.sid)
               ELSE CompleteConversion(tk, r.sid)
            /\ UNCHANGED panelVisible
       ELSE /\ panelVisible' = FALSE
            /\ tasks' = Finish(tk)
            /\ UNCHANGED sessionId
    /\ UNCHANGED <<conversionHistory, currentFile, currentResult, containerVisible,
                   panelDecision, storePreference, historyModal, optionBtn, remote, ghost>>

\* getNextDecision after await fetch('/interactive/decisions/...')
DeliverDecisions(tk, r) ==
    /\ r \in Seen(tk, "decisions_wait")
    /\ CASE r.st = "neterr" ->
              /\ tasks' = Finish(tk)
              /\ UNCHANGED <<dom, finalizeReqs>>
         [] r.st = "ok" /\ r.first # 0 ->
              \* renderDecision(data.decisions.pending[0])
              /\ panelDecision' = r.first
              /\ storePreference' = FALSE
              /\ containerVisible' = TRUE
              /\ tasks' = Finish(tk)
              /\ UNCHANGED <<panelVisible, historyModal, optionBtn, finalizeReqs>>
         [] OTHER ->
              /\ CompleteConversion(tk, sessionId)
              /\ UNCHANGED <<dom, finalizeReqs>>
    /\ UNCHANGED <<sessionId, conversionHistory, currentFile, currentResult, remote,
                   okResolves, resolveCompleted, cancelAcked, startRejected, reviews>>

\* a completeConversion that forces completion whatever the status says
DeliverStatusIgnoringInfo(tk, r) ==
    /\ r \in Seen(tk, "status_wait")
    /\ IF r.st = "ok"
       THEN /\ tasks' = Send(tk, "complete_wait", sessionId)
            /\ finalizeReqs' = Bump(finalizeReqs, sessionId)
       ELSE /\ tasks' = Finish(tk)
            /\ UNCHANGED finalizeReqs
    /\ UNCHANGED <<sessionId, conversionHistory, currentFile, currentResult, dom, remote,
                   okResolves, resolveCompleted, cancelAcked, startRejected, reviews>>

\* completeConversion after await fetch('/interactive/status/...')
DeliverStatus(tk, r) ==
    /\ r \in Seen(tk, "status_wait")
    /\ CASE r.st = "ok" /\ r.info ->
              /\ currentResult' = r.result
              /\ containerVisible' = FALSE
              /\ tasks' = Finish(tk)
              /\ UNCHANGED finalizeReqs
         [] r.st = "ok" /\ ~r.info ->
              /\ tasks' = Send(tk, "complete_wait", sessionId)
              /\ finalizeReqs' = Bump(finalizeReqs, sessionId)
              /\ UNCHANGED <<currentResult, containerVisible>>
         [] OTHER ->
              /\ tasks' = Finish(tk)
              /\ UNCHANGED <<currentResult, containerVisible, finalizeReqs>>
    /\ UNCHANGED <<sessionId, conversionHistory, currentFile, panelVisible, panelDecision,
                   storePreference, historyModal, optionBtn, remote, okResolves, resolveCompleted, cancelAcked,
                   startRejected, reviews>>

\* completeConversion after await fetch('/interactive/complete/...')
DeliverComplete(tk, r) ==
    /\ r \in Seen(tk, "complete_wait")
    /\ IF r.st = "ok"
       THEN /\ currentResult' = r.result
            /\ containerVisible' = FALSE
       ELSE UNCHANGED <<currentResult, containerVisible>>
    /\ tasks' = Finish(tk)
    /\ UNCHANGED <<sessionId, conversionHistory, currentFile, panelVisible, panelDecision,
                   storePreference, historyModal, optionBtn, remote, ghost>>

\* a history that records the newest entry first
UnshiftHistory(h, did, choice) == <<[decision_id |-> did, choice |-> choice]>> \o h

\* this.conversionHistory.push({decision_id, choice})
PushHistory(h, did, choice) == Append(h, [decision_id |-> did, choice |-> choice])

\* a resolveDecision that records the choice whatever the answer says
DeliverResolveRecordingFailures(tk, r) ==
    /\ r \in Seen(tk, "resolve_wait")
    /\ conversionHistory' = PushHistory(conversionHistory, tk.req.did, tk.req.choice)
    /\ IF r.st = "ok"
       THEN /\ okResolves' = Bump(okResolves, tk.req.sid)
            /\ IF r.completed
               THEN /\ currentResult' = r.result
                    /\ containerVisible' = FALSE
                    /\ tasks' = Finish(tk)
                    /\ resolveCompleted' = resolveCompleted \cup {tk.req.sid}
               ELSE /\ GetNextDecision(tk, sessionId)
                    /\ UNCHANGED <<currentResult, containerVisible, resolveCompleted>>
       ELSE /\ tasks' = Finish(tk)
            /\ UNCHANGED <<currentResult, containerVisible, okResolves, resolveCompleted>>
    /\ UNCHANGED <<sessionId, currentFile, panelVisible, panelDecision, storePreference, historyModal, optionBtn,
                   remote, finalizeReqs, cancelAcked, startRejected, reviews>>

\* a resolveDecision that takes a pending count of zero for completion
DeliverResolveByPendingCount(tk, r) ==
    /\ r \in Seen(tk, "resolve_wait")
    /\ IF r.st = "ok"
       THEN /\ conversionHistory' = PushHistory(conversionHistory, tk.req.did, tk.req.choice)
            /\ okResolves' = Bump(okResolves, tk.req.sid)
            /\ IF r.completed \/ r.n = 0
               THEN /\ currentResult' = r.result
                    /\ containerVisible' = FALSE
                    /\ tasks' = Finish(tk)
                    /\ resolveCompleted' = IF r.completed THEN resolveCompleted \cup {tk.req.sid}
                                           ELSE resolveCompleted
               ELSE /\ GetNextDecision(tk, sessionId)
                    /\ UNCHANGED <<currentResult, containerVisible, resolveCompleted>>
       ELSE /\ tasks' = Finish(tk)
            /\ UNCHANGED <<conversionHistory, currentResult, containerVisible, okResolves,
                           resolveCompleted>>
    /\ UNCHANGED <<sessionId, currentFile, panelVisible, panelDecision, storePreference, historyModal, optionBtn,
                   remote, finalizeReqs, cancelAcked, startRejected, reviews>>

\* resolveDecision after await fetch('/interactive/resolve')
DeliverResolve(tk, r) ==
    /\ r \in Seen(tk, "resolve_wait")
    /\ IF r.st = "ok"
       THEN /\ conversionHistory' = PushHistory(conversionHistory, tk.req.did, tk.req.choice)
            /\ okResolves' = Bump(okResolves, tk.req.sid)
            /\ IF r.completed
               THEN /\ currentResult' = r.result
                    /\ containerVisible' = FALSE
                    /\ tasks' = Finish(tk)
                    /\ resolveCompleted' = resolveCompleted \cup {tk.req.sid}
               ELSE /\ GetNextDecision(tk, sessionId)
                    /\ UNCHANGED <<currentResult, containerVisible, resolveCompleted>>
       ELSE /\ tasks' = Finish(tk)
            /\ UNCHANGED <<conversionHistory, currentResult, containerVisible, okResolves,
                           resolveCompleted>>
    /\ UNCHANGED <<sessionId, currentFile, panelVisible, panelDecision, storePreference, historyModal, optionBtn,
                   remote, finalizeReqs, cancelAcked, startRejected, reviews>>

\* a cancelSession that keeps tracking the session it cancelled
DeliverCancelKeepingSession(tk, r) ==
    /\ r \in Seen(tk, "cancel_wait")
    /\ IF r.st # "neterr"
       THEN /\ conversionHistory' = <<>>
            /\ panelVisible' = FALSE
            /\ containerVisible' = FALSE
       ELSE UNCHANGED <<conversionHistory, panelVisible, containerVisible>>
    /\ cancelAcked' = IF r.st = "ok" THEN cancelAcked \cup {tk.req.sid} ELSE cancelAcked
    /\ tasks' = Finish(tk)
    /\ UNCHANGED <<sessionId, currentFile, currentResult, panelDecision, storePreference, historyModal, optionBtn,
                   remote, okResolves, finalizeReqs, resolveCompleted, startRejected, reviews>>

\* cancelSession after await fetch('/interactive/cancel/...'): the response is not read
DeliverCancel(tk, r) ==
    /\ r \in Seen(tk, "cancel_wait")
    /\ IF r.st # "neterr"
       THEN /\ sessionId' = 0
            /\ conversionHistory' = <<>>
            /\ panelVisible' = FALSE
            /\ containerVisible' = FALSE
       ELSE UNCHANGED <<sessionId, conversionHistory, panelVisible, containerVisible>>
    /\ cancelAcked' = IF r.st = "ok" THEN cancelAcked \cup {tk.req.sid} ELSE cancelAcked
    /\ tasks' = Finish(tk)
    /\ UNCHANGED <<currentFile, currentResult, panelDecision, storePreference, historyModal, optionBtn, remote,
                   okResolves, finalizeReqs, resolveCompleted, startRejected, reviews>>

\* ------------------------------------------------------ the remote resolver
Known(sid) == sid \in 1..Len(remote)

Reply(tk, r) == Become(tk, [tk EXCEPT !.resp = r])

Ok == [NoResp EXCEPT !.st = "ok"]

InitialQueue(s, n) == [k \in 1..n |-> DecId(s, k)]

RECURSIVE Without(_, _)
Without(q, d) ==
    IF q = <<>> THEN <<>>
    ELSE IF Head(q) = d THEN Tail(q) ELSE <<Head(q)>> \o Without(Tail(q), d)

InQueue(q, d) == \E i \in 1..Len(q) : q[i] = d

\* start session: {file, sourceFormat, targetFormat} -> {sessionId, pendingDecisions}
ServerStart(tk) ==
    /\ Awaiting(tk, "start_wait")
    /\ Len(remote) < MaxSessions
    /\ \E n \in 0..MaxPending :
        LET s == Len(remote) + 1 IN
        /\ remote' = Append(remote, [status |-> "active", queue |-> InitialQueue(s, n),
                                    zeroPending |-> (n = 0)])
        /\ tasks' = Reply(tk, [Ok EXCEPT !.sid = s, !.n = n])
    /\ UNCHANGED <<sessionId, conversionHistory, currentFile, currentResult, dom, ghost>>

\* list pending decisions: {sessionId} -> {pending}
ServerDecisions(tk) ==
    /\ Awaiting(tk, "decisions_wait")
    /\ Known(tk.req.sid)
    /\ remote[tk.req.sid].status # "cancelled"
    /\ LET q == remote[tk.req.sid].queue IN
       tasks' = Reply(tk, [Ok EXCEPT !.first = IF q = <<>> THEN 0 ELSE Head(q)])
    /\ UNCHANGED <<sessionId, conversionHistory, currentFile, currentResult, dom,
                   remote, ghost>>

\* resolve a decision: -> {pendingDecisions, sessionStatus, result?}.  One
\* resolution may satisfy several ambiguities, and an empty queue need not
\* mean that the session is completed.
ServerResolve(tk) ==
    /\ Awaiting(tk, "resolve_wait")
    /\ Known(tk.req.sid)
    /\ LET s == tk.req.sid
           q == remote[s].queue
       IN  /\ remote[s].status = "active"
           /\ InQueue(q, tk.req.did)
           /\ \E newq \in {Without(q, tk.req.did), <<>>} :
              \E done \in (IF newq = <<>> THEN BOOLEAN ELSE {FALSE}) :
                /\ remote' = [remote EXCEPT ![s].status = IF done THEN "completed" ELSE "active",
                                            ![s].queue = newq]
                /\ tasks' = Reply(tk, [Ok EXCEPT !.n = Len(newq), !.completed = done,
                                                !.result = IF done THEN Artifact(s) ELSE 0])
    /\ UNCHANGED <<sessionId, conversionHistory, currentFile, currentResult, dom, ghost>>

\* read session status: {sessionId} -> {sessionStatus, completionInfo?}
ServerStatus(tk) ==
    /\ Awaiting(tk, "status_wait")
    /\ Known(tk.req.sid)
    /\ remote[tk.req.sid].status # "cancelled"
    /\ LET done == remote[tk.req.sid].status = "completed" IN
       tasks' = Reply(tk, [Ok EXCEPT !.info = done,
                                    !.result = IF done THEN Artifact(tk.req.sid) ELSE 0])
    /\ UNCHANGED <<sessionId, conversionHistory, currentFile, currentResult, dom,
                   remote, ghost>>

\* force-complete a session: {sessionId} -> {result}
ServerComplete(tk) ==
    /\ Awaiting(tk, "complete_wait")
    /\ Known(tk.req.sid)
    /\ remote[tk.req.sid].status # "cancelled"
    /\ remote' = [remote EXCEPT ![tk.req.sid].status = "completed",
                                ![tk.req.sid].queue = <<>>]
    /\ tasks' = Reply(tk, [Ok EXCEPT !.result = Artifact(tk.req.sid)])
    /\ UNCHANGED <<sessionId, conversionHistory, currentFile, currentResult, dom, ghost>>

\* cancel a session: {sessionId, reason} -> ack; a no-op on a finished session
ServerCancel(tk) ==
    /\ Awaiting(tk, "cancel_wait")
    /\ Known(tk.req.sid)
    /\ remote' = [remote EXCEPT ![tk.req.sid] =
                     IF @.status = "active"
                     THEN [@ EXCEPT !.status = "cancelled", !.queue = <<>>] ELSE @]
    /\ tasks' = Reply(tk, Ok)
    /\ UNCHANGED <<sessionId, conversionHistory, currentFile, currentResult, dom, ghost>>

\* ------------------------------------------------------------ specification
Responses == {tk.resp : tk \in DOMAIN tasks}
                \cup {[NoResp EXCEPT !.st = x] : x \in {"fail", "neterr"}}

Next ==
    \/ SelectFile
    \/ StartClick
    \/ \E i \in 1..MaxOptions : OptionClick(i)
    \/ CancelClick
    \/ \E tk \in DOMAIN tasks : ConfirmYes(tk)
    \/ \E tk \in DOMAIN tasks : ConfirmNo(tk)
    \/ \E tk \in DOMAIN tasks, r \in Responses : DeliverStart(tk, r)
    \/ \E tk \in DOMAIN tasks, r \in Responses : DeliverDecisions(tk, r)
    \/ \E tk \in DOMAIN tasks, r \in Responses : DeliverStatus(tk, r)
    \/ \E tk \in DOMAIN tasks, r \in Responses : DeliverComplete(tk, r)
    \/ \E tk \in DOMAIN tasks, r \in Responses : DeliverResolve(tk, r)
    \/ \E tk \in DOMAIN tasks, r \in Responses : DeliverCancel(tk, r)
    \/ \E tk \in DOMAIN tasks : ServerStart(tk)
    \/ \E tk \in DOMAIN tasks : ServerDecisions(tk)
    \/ \E tk \in DOMAIN tasks : ServerResolve(tk)
    \/ \E tk \in DOMAIN tasks : ServerStatus(tk)
    \/ \E tk \in DOMAIN tasks : ServerComplete(tk)
    \/ \E tk \in DOMAIN tasks : ServerCancel(tk)

Spec == Init /\ [][Next]_vars

\* The executions in which the user also works the #store-preference box, and
\* runs one conversion at a time without cancelling it.
NextPref ==
    \/ SelectFile
    \/ StartClick /\ sessionId = 0 /\ tasks = EmptyBag
    \/ TogglePreference
    \/ \E i \in 1..MaxOptions : OptionClick(i)
    \/ \E tk \in DOMAIN tasks, r \in Responses : DeliverStart(tk, r)
    \/ \E tk \in DOMAIN tasks, r \in Responses : DeliverDecisions(tk, r)
    \/ \E tk \in DOMAIN tasks, r \in Responses : DeliverStatus(tk, r)
    \/ \E tk \in DOMAIN tasks, r \in Responses : DeliverComplete(tk, r)
    \/ \E tk \in DOMAIN tasks, r \in Responses : DeliverResolve(tk, r)
    \/ \E tk \in DOMAIN tasks : ServerStart(tk)
    \/ \E tk \in DOMAIN tasks : ServerDecisions(tk)
    \/ \E tk \in DOMAIN tasks : ServerResolve(tk)
    \/ \E tk \in DOMAIN tasks : ServerStatus(tk)
    \/ \E tk \in DOMAIN tasks : ServerComplete(tk)

SpecPref == Init /\ [][NextPref]_vars

\* One session at a time, with the review of its history: the user starts a
\* session only when none is tracked and no handler is running, and opens and
\* closes the conversion-history modal at will
NextReview ==
    \/ SelectFile
    \/ StartClick /\ sessionId = 0 /\ tasks = EmptyBag
    \/ \E i \in 1..MaxOptions : OptionClick(i)
    \/ ShowConversionHistory
    \/ CloseHistory
    \/ \E tk \in DOMAIN tasks, r \in Responses : DeliverStart(tk, r)
    \/ \E tk \in DOMAIN tasks, r \in Responses : DeliverDecisions(tk, r)
    \/ \E tk \in DOMAIN tasks, r \in Responses : DeliverStatus(tk, r)
    \/ \E tk \in DOMAIN tasks, r \in Responses : DeliverComplete(tk, r)
    \/ \E tk \in DOMAIN tasks, r \in Responses : DeliverResolve(tk, r)
    \/ \E tk \in DOMAIN tasks : ServerStart(tk)
    \/ \E tk \in DOMAIN tasks : ServerDecisions(tk)
    \/ \E tk \in DOMAIN tasks : ServerResolve(tk)
    \/ \E tk \in DOMAIN tasks : ServerStatus(tk)
    \/ \E tk \in DOMAIN tasks : ServerComplete(tk)

SpecReview == Init /\ [][NextReview]_vars

\* the option and default-option values renderDecision is applied to: strings,
\* numbers and mappings, among them mappings with the same fields in another order
OptionValues ==
    {Str(<<>>), Str(<<"legato">>), Str(<<"2">>), Num(0), Num(2), Obj(<<>>),
     OptStaccato,
     Obj(<<Field("voice", SNum(2)), Field("articulation", SStr(<<"staccato">>))>>),
     Obj(<<Field("articulation", SStr(<<"legato">>)), Field("voice", SNum(2))>>),
     Obj(<<Field("voice", SNum(2))>>),
     Obj(<<Field("voice", SStr(<<"2">>))>>)}

\* the body of renderDecision's decision.options.forEach for one option of a
\* decision whose default_option is d
RenderOption(o, d) ==
    /\ optionBtn' = [built |-> TRUE, option |-> o, default_option |-> d,
                     marked |-> IsDefaultOption(o, d)]
    /\ UNCHANGED <<sessionId, conversionHistory, currentFile, currentResult, panelVisible,
                   containerVisible, panelDecision, storePreference, historyModal, tasks,
                   remote, ghost>>

NextMark == \E o \in OptionValues, d \in OptionValues \cup {Null} : RenderOption(o, d)

SpecMark == Init /\ [][NextMark]_vars

\* the resolver has no answer but a failure for the request task tk awaits: the
\* session is unknown or finished, or the decision is not pending
Rejected(tk) ==
    /\ tk \in DOMAIN tasks /\ tk.resp.st = "none"
    /\ CASE tk.pc \in {"decisions_wait", "status_wait", "complete_wait"} ->
                ~Known(tk.req.sid) \/ remote[tk.req.sid].status = "cancelled"
         [] tk.pc = "resolve_wait" ->
                \/ ~Known(tk.req.sid)
                \/ remote[tk.req.sid].status # "active"
                \/ ~InQueue(remote[tk.req.sid].queue, tk.req.did)
         [] tk.pc = "cancel_wait" -> ~Known(tk.req.sid)
         [] OTHER -> FALSE

\* the code after the await of task tk runs on the resolver's answer: no request
\* or answer is lost, and a failure status only answers a rejected request
DeliverAnswer(tk) ==
    \E r \in Responses :
        /\ r.st = "ok" \/ (r.st = "fail" /\ Rejected(tk))
        /\ \/ DeliverStart(tk, r) \/ DeliverDecisions(tk, r) \/ DeliverStatus(tk, r)
           \/ DeliverComplete(tk, r) \/ DeliverResolve(tk, r)

\* the resolver answers the request of task tk
ServerAnswer(tk) ==
    \/ ServerStart(tk) \/ ServerDecisions(tk) \/ ServerResolve(tk)
    \/ ServerStatus(tk) \/ ServerComplete(tk)

\* A resolver whose calls do not fail and a user who never cancels: every
\* request is answered and every answer handled, and the user keeps choosing
\* an option of the decision on display.  A start is only sent while the
\* resolver has room for another session, so that every start is answered
NextLive ==
    \/ SelectFile
    \/ /\ StartClick
       /\ Len(remote) < MaxSessions
       /\ \A tk \in DOMAIN tasks : tk.pc # "start_wait"
    \/ \E i \in 1..MaxOptions : OptionClick(i)
    \/ \E tk \in DOMAIN tasks : DeliverAnswer(tk)
    \/ \E tk \in DOMAIN tasks : ServerAnswer(tk)

\* the requests a handler awaits
Waits == {"start_wait", "decisions_wait", "resolve_wait", "status_wait", "complete_wait"}

\* the event loop runs the code after an await once the answer is there, whatever
\* else is going on: an answered request of any kind is eventually handled, and
\* so is a rejected one
Fairness ==
    /\ WF_vars(\E tk \in DOMAIN tasks : ServerAnswer(tk))
    /\ \A pc \in Waits :
          WF_vars(\E tk \in DOMAIN tasks : tk.pc = pc /\ tk.resp.st = "ok" /\ DeliverAnswer(tk))
    /\ WF_vars(\E tk \in DOMAIN tasks : Rejected(tk) /\ DeliverAnswer(tk))
    /\ SF_vars(\E i \in 1..MaxOptions : OptionClick(i))

SpecLive == Init /\ [][NextLive]_vars /\ Fairness

\* ------------------------------------------------------------- properties
\* the requests sent in this step to the endpoint awaited at pc
NewlySent(pc) ==
    {tk \in DOMAIN tasks' :
        tk.pc = pc /\ tk.resp.st = "none" /\ CopiesIn(tk, tasks') > CopiesIn(tk, tasks)}

HistoryIds == {conversionHistory[i].decision_id : i \in 1..Len(conversionHistory)}

NoDuplicates(h) == \A i, j \in 1..Len(h) : h[i].decision_id = h[j].decision_id => i = j

\* C1: while a session is tracked, the number of history entries equals the
\* number of resolve calls for that session that returned success.
C1_HistoryCountsResolves ==
    sessionId # 0 => Len(conversionHistory) = okResolves[sessionId]

\* C2: no decision id appears twice in history, and no step sends a resolve
\* request for a decision id that is already present in history.
C2_ResolvedAtMostOnce ==
    [][/\ NoDuplicates(conversionHistory')
       /\ \A tk \in NewlySent("resolve_wait") : tk.req.did \notin HistoryIds]_vars

\* C3: once a resolve has returned completed for a session, no step sends a
\* list-pending-decisions or resolve request for that session.
C3_TerminalRejects ==
    [][\A tk \in NewlySent("decisions_wait") \cup NewlySent("resolve_wait") :
          tk.req.sid \notin resolveCompleted]_vars

\* C4: a cancel invoked on a session whose completion is already on display
\* changes neither the session id nor the history.
C4_CancelCompletedNoOp ==
    [][\A tk \in DOMAIN tasks, r \in Responses :
          (tk.shown /\ DeliverCancel(tk, r)) =>
              (sessionId' = sessionId /\ conversionHistory' = conversionHistory)]_vars

\* C5: a completeConversion call entered when the session's completion is
\* already on display sends no force-complete request, and when its status
\* check succeeds it records that session's artifact again.
C5_SecondCallNoFinalize ==
    [][\A tk \in DOMAIN tasks, r \in Responses :
          (tk.shown /\ DeliverStatus(tk, r)) =>
              /\ NewlySent("complete_wait") = {}
              /\ r.st = "ok" => currentResult' = Artifact(tk.req.sid)]_vars

\* C5 witness: the status check of a second call has been answered, the first
\* call having issued the one force-complete request
C5_Witness ==
    \E tk \in DOMAIN tasks :
        /\ tk.pc = "status_wait" /\ tk.shown /\ tk.resp.st = "ok"
        /\ finalizeReqs[tk.req.sid] = 1

\* C6: at most one force-complete request is issued for a session.
C6_OneFinalizePerSession == \A s \in SessionIds : finalizeReqs[s] <= 1

\* C7: the history of the tracked session holds no entry recorded for another
\* session.
C7_HistoryOfTrackedSession ==
    sessionId # 0 =>
        \A i \in 1..Len(conversionHistory) :
            DecSession(conversionHistory[i].decision_id) = sessionId

IsOptionOf(c, d) == \E i \in 1..Len(Options(d)) : Options(d)[i] = c

\* C8: the choice in every resolve request and in every history entry equals
\* an option the resolver issued for that decision.
C8_ChoiceEqualsOption ==
    /\ \A tk \in DOMAIN tasks : tk.kind = "resolve" /\ tk.pc = "resolve_wait"
                                  => IsOptionOf(tk.req.choice, tk.req.did)
    /\ \A i \in 1..Len(conversionHistory) :
          IsOptionOf(conversionHistory[i].choice, conversionHistory[i].decision_id)

\* the scenario: one session, started with pending decisions and still
\* tracked; two resolves returned success, the second one completed
C9_Scenario ==
    /\ Len(remote) = 1 /\ ~remote[1].zeroPending
    /\ sessionId = 1
    /\ okResolves[1] = 2 /\ 1 \in resolveCompleted

C10_ZeroPendingFastPath ==
    [][/\ \A tk \in NewlySent("decisions_wait") :
             Known(tk.req.sid) => ~remote[tk.req.sid].zeroPending
       /\ (Known(sessionId') /\ remote'[sessionId'].zeroPending
              /\ currentResult' = Artifact(sessionId'))
             => conversionHistory' = <<>>]_vars

\* the requests sent in this step, to any endpoint but start
SentForSession ==
    UNION {NewlySent(pc) : pc \in {"decisions_wait", "resolve_wait", "status_wait",
                                   "complete_wait", "cancel_wait"}}

\* C11: when the resolver acknowledges the cancel of a session that had not
\* completed, the session is cancelled and the history is empty, and from then
\* on no decision query, resolve, status check, force-complete or cancel
\* request is sent for that session.
C11_CancelledIsFinal ==
    [][/\ \A tk \in DOMAIN tasks, r \in Responses :
             (DeliverCancel(tk, r) /\ r.st = "ok") =>
                 /\ conversionHistory' = <<>>
                 /\ remote[tk.req.sid].status # "completed"
                        => remote'[tk.req.sid].status = "cancelled"
       /\ \A tk \in SentForSession : tk.req.sid \notin cancelAcked']_vars

\* C11 witness: a session cancelled before any resolve succeeded, with a later
\* handler invocation in progress
C11_Witness ==
    \E s \in cancelAcked :
        /\ remote[s].status = "cancelled" /\ okResolves[s] = 0
        /\ conversionHistory = <<>> /\ sessionId = 0
        /\ \E tk \in DOMAIN tasks : tk.pc \in {"status_wait", "decisions_wait"}

\* C12: every resolve request carries save_preference exactly as the
\* #store-preference box stands when the option is clicked.
C12_SavePreferenceVerbatim ==
    [][\A tk \in NewlySent("resolve_wait") : tk.req.save = storePreference]_vars

\* C12 witness: a resolve request asking to save the preference is in flight
C12_Witness ==
    \E tk \in DOMAIN tasks : tk.pc = "resolve_wait" /\ tk.req.save /\ tk.resp.st = "none"

\* C13: a session the resolver holds as completed or cancelled keeps that
\* status, and a tracked session whose completion the client has recorded is
\* never turned into a cancelled one (its tracking dropped by cancelSession).
C13_StatusMonotone ==
    [][/\ \A s \in DOMAIN remote :
             remote[s].status # "active" => remote'[s].status = remote[s].status
       /\ Shown(sessionId) => sessionId' # 0]_vars

IsPrefix(h, g) == Len(h) <= Len(g) /\ \A i \in 1..Len(h) : g[i] = h[i]

\* C14: in every step the history before the step is a prefix of the history
\* after it.
C14_HistoryAppendOnly ==
    [][IsPrefix(conversionHistory, conversionHistory')]_vars

\* a response that reports a failure: a rejected fetch or a status other than success
Failed(r) == r.st \in {"fail", "neterr"}

\* C15: when a resolve request fails, no history entry is added, the session
\* id and the recorded result stay as they are and no request is sent; and a
\* resolve request is only ever sent by a click on an option.
C15_FailedResolveNotApplied ==
    [][/\ \A tk \in DOMAIN tasks, r \in Responses :
             (Failed(r) /\ DeliverResolve(tk, r)) =>
                 /\ UNCHANGED <<conversionHistory, sessionId, currentResult, remote>>
                 /\ SentForSession = {}
       /\ NewlySent("resolve_wait") # {} => \E i \in 1..MaxOptions : OptionClick(i)]_vars

\* C15 witness: the resolver applied the resolution of the first decision but
\* the client saw the request fail: nothing is recorded and nothing is in flight
C15_Witness ==
    /\ sessionId # 0 /\ Known(sessionId)
    /\ remote[sessionId].status = "active" /\ ~remote[sessionId].zeroPending
    /\ ~InQueue(remote[sessionId].queue, DecId(sessionId, 1))
    /\ panelDecision = DecId(sessionId, 1)
    /\ conversionHistory = <<>> /\ tasks = EmptyBag

\* the code after the await of task tk runs on response r
Deliver(tk, r) ==
    \/ DeliverStart(tk, r) \/ DeliverDecisions(tk, r) \/ DeliverStatus(tk, r)
    \/ DeliverComplete(tk, r) \/ DeliverResolve(tk, r) \/ DeliverCancel(tk, r)

\* C16: an operation whose request fails leaves the session id, the history
\* and the recorded result as they were.
C16_FailureLeavesStateUnchanged ==
    [][\A tk \in DOMAIN tasks, r \in Responses :
          (Failed(r) /\ Deliver(tk, r)) =>
              UNCHANGED <<sessionId, conversionHistory, currentResult>>]_vars

\* C17: a decision query that fails, by a rejected fetch or by a status other
\* than success, is followed by no status check.
C17_EmptyIsNotFailure ==
    [][\A tk \in DOMAIN tasks, r \in Responses :
          (Failed(r) /\ DeliverDecisions(tk, r)) => NewlySent("status_wait") = {}]_vars

\* C18: a click on the start button with no file selected is refused: it
\* sends no request and leaves the session id, the history, the recorded
\* result and the resolver's sessions as they were.
C18_StartWithoutFile ==
    [][(StartClick /\ ~currentFile) =>
          /\ startRejected'
          /\ UNCHANGED <<tasks, sessionId, conversionHistory, currentResult, remote>>]_vars

\* C18 witness: the start button was clicked with no file selected
C18_Witness == startRejected /\ ~currentFile /\ tasks = EmptyBag /\ sessionId = 0

\* C19: when the start request fails, the session id and the history stay as
\* they were, the handler returns and no request follows from it.
C19_FailedStartChangesNothing ==
    [][\A tk \in DOMAIN tasks, r \in Responses :
          (Failed(r) /\ DeliverStart(tk, r)) =>
              /\ UNCHANGED <<sessionId, conversionHistory, currentResult, remote>>
              /\ tasks' = Finish(tk)
              /\ SentForSession = {}]_vars

\* C19 witness: a session with recorded resolutions is still tracked after a
\* later start failed and hid the panel
C19_Witness ==
    /\ sessionId # 0 /\ conversionHistory # <<>>
    /\ ~panelVisible /\ cancelAcked = {} /\ tasks = EmptyBag

\* C20: a cancel request is sent only by the Yes of the confirmation, and when
\* the user answers No nothing is sent and the session id, the history, the
\* recorded result and the resolver's sessions stay as they were.
C20_CancelNeedsConfirmation ==
    [][/\ NewlySent("cancel_wait") # {} =>
             \E tk \in DOMAIN tasks : tk.pc = "confirm" /\ ConfirmYes(tk)
       /\ \A tk \in DOMAIN tasks :
             ConfirmNo(tk) =>
                 /\ SentForSession = {}
                 /\ UNCHANGED <<sessionId, conversionHistory, currentResult, remote>>]_vars

\* C20 witness: a confirmed cancel request is in flight
C20_Witness ==
    \E tk \in DOMAIN tasks : tk.pc = "cancel_wait" /\ tk.req.sid # 0 /\ ~ModalOpen

\* C21: when the resolver acknowledges a cancel for the tracked session, which
\* it holds as completed, the client keeps tracking the session and its history.
C21_CancelAfterCompletion ==
    [][\A tk \in DOMAIN tasks, r \in Responses :
          (/\ DeliverCancel(tk, r) /\ r.st = "ok"
           /\ sessionId = tk.req.sid
           /\ remote[tk.req.sid].status = "completed") =>
              UNCHANGED <<sessionId, conversionHistory>>]_vars

\* C22: no list-pending-decisions request is sent for a session after a
\* resolve response reported it completed.
C22_NoQueryAfterCompleted ==
    [][\A tk \in NewlySent("decisions_wait") : tk.req.sid \notin resolveCompleted']_vars

InFlight(pc) ==
    BagCardinality([tk \in {t \in DOMAIN tasks : t.pc = pc} |-> CopiesIn(tk, tasks)])

\* C24: at most one resolve request is in flight, and a decision query is
\* never in flight together with a resolve request.
C24_StrictlySequential ==
    /\ InFlight("resolve_wait") <= 1
    /\ InFlight("resolve_wait") = 1 => InFlight("decisions_wait") = 0

\* C25: while the tracked session is active no start request is sent.
C25_NoStartWhileActive ==
    [][(Known(sessionId) /\ remote[sessionId].status = "active")
          => NewlySent("start_wait") = {}]_vars

\* the toast the handler that called getNextDecision or completeConversion shows
\* once the call returns: startInteractiveConversion shows 'Interactive session
\* started', resolveDecision shows nothing more
ToastOnReturn(tk) == IF tk.kind = "start" THEN <<"success">> ELSE <<>>

\* the types of the toasts Utils.showToast puts up, in order, while the code
\* after the await of task tk runs on response r up to its next await
ShowToast(tk, r) ==
    CASE tk.pc = "start_wait" ->
            \* 'success' follows only when the nested call returns
            IF r.st = "ok" THEN <<>> ELSE <<"error">>
      [] tk.pc = "decisions_wait" ->
            CASE r.st = "neterr" -> <<"error">> \o ToastOnReturn(tk)
              [] r.st = "ok" /\ r.first # 0 -> ToastOnReturn(tk)
              [] OTHER -> <<>>
      [] tk.pc = "status_wait" ->
            CASE r.st = "ok" /\ r.info -> <<"success">> \o ToastOnReturn(tk)
              [] r.st = "ok" /\ ~r.info -> <<>>
              [] OTHER -> <<"error">> \o ToastOnReturn(tk)
      [] tk.pc = "complete_wait" ->
            (IF r.st = "ok" THEN <<"success">> ELSE <<"error">>) \o ToastOnReturn(tk)
      [] tk.pc = "resolve_wait" ->
            CASE r.st = "ok" /\ r.completed -> <<"success">>
              [] r.st = "ok" /\ ~r.completed -> <<>>
              [] OTHER -> <<"error">>
      [] tk.pc = "cancel_wait" ->
            IF r.st = "neterr" THEN <<"error">> ELSE <<"info">>
      [] OTHER -> <<>>

\* C26: whenever the code after an await runs on a rejected fetch or on an
\* answer whose status is not success, it puts up an error toast.
C26_FailuresSurface ==
    [][\A tk \in DOMAIN tasks, r \in Responses :
          (Failed(r) /\ Deliver(tk, r)) =>
              \E i \in DOMAIN ShowToast(tk, r) : ShowToast(tk, r)[i] = "error"]_vars

\* C27: whenever the tracked session is active at the resolver and no handler
\* is running, a decision still pending in that session is on display, the only
\* control from which the user can move the session towards completion (the
\* page has no control that repeats a decision query or a status check).
C27_RetryPossible ==
    (Known(sessionId) /\ remote[sessionId].status = "active" /\ tasks = EmptyBag) =>
        /\ panelVisible /\ containerVisible
        /\ InQueue(remote[sessionId].queue, panelDecision)

\* C29: every decision put on display comes from a decision query of the
\* tracked session and has not been resolved since: it belongs to the tracked
\* session and is not in the history.
C29_RenderedIsFresh ==
    [][\A tk \in DOMAIN tasks, r \in Responses :
          (DeliverDecisions(tk, r) /\ r.st = "ok" /\ r.first # 0) =>
              /\ tk.req.sid = sessionId
              /\ r.first \notin HistoryIds]_vars

\* C30: a force-complete request is sent only by the step that handles a
\* successful status answer without completion info for the same session; a
\* status answer with completion info records that result and sends nothing.
C30_CompleteFollowsStatus ==
    [][/\ \A q \in NewlySent("complete_wait") :
             \E tk \in DOMAIN tasks, r \in Responses :
                 /\ DeliverStatus(tk, r) /\ r.st = "ok" /\ ~r.info
                 /\ tk.req.sid = q.req.sid
       /\ \A tk \in DOMAIN tasks, r \in Responses :
             (DeliverStatus(tk, r) /\ r.st = "ok" /\ r.info) =>
                 /\ currentResult' = r.result
                 /\ NewlySent("complete_wait") = {}]_vars

\* C28: showing the conversion history leaves the history, the session id, the
\* recorded result and the resolver's sessions as they are, and the modal
\* presents the tracked session id and one item per history entry, in the
\* history's order, each with the entry's choice as text; so a repeated showing
\* of an unchanged history presents the same sequence.
C28_ReviewDoesNotMutate ==
    [][(historyModal'.open /\ ~historyModal.open) =>
          /\ UNCHANGED <<sessionId, conversionHistory, currentResult, remote, tasks>>
          /\ historyModal'.sid = sessionId
          /\ Len(historyModal'.items) = Len(conversionHistory)
          /\ \A i \in 1..Len(conversionHistory) :
                /\ historyModal'.items[i].heading = i
                /\ historyModal'.items[i].choice = HistoryChoice(conversionHistory[i].choice)]_vars

\* C28 witness: the history of a completed session with two entries is on
\* display for the second time at least
C28_Witness ==
    /\ historyModal.open /\ reviews >= 2
    /\ Len(conversionHistory) = 2 /\ Len(historyModal.items) = 2
    /\ Known(sessionId) /\ remote[sessionId].status = "completed"

\* C31: when the answer of a resolve request arrives after the cancel of its
\* session was acknowledged and no session has been started since, the history
\* stays empty, the session id stays unset and no request is sent.
C31_LateResolveAfterCancel ==
    [][\A tk \in DOMAIN tasks, r \in Responses :
          (/\ DeliverResolve(tk, r)
           /\ tk.req.sid \in cancelAcked /\ sessionId = 0 /\ conversionHistory = <<>>) =>
              /\ conversionHistory' = <<>>
              /\ sessionId' = 0
              /\ SentForSession = {}]_vars

\* C32: every decision query, resolve, status, force-complete and cancel
\* request carries a session id that is set.
C32_NoRequestWithoutSession ==
    [][\A tk \in SentForSession : tk.req.sid # 0]_vars

\* C33: every resolve request carries the id of the session that issued the
\* decision it resolves.
C33_ResolvePairsDecisionWithSession ==
    [][\A tk \in NewlySent("resolve_wait") : tk.req.sid = DecSession(tk.req.did)]_vars

\* the step handles, for task tk, a response r that reports completion: a
\* resolve answer with status completed, a status answer with completion info
\* or a successful force-complete answer
Completing(tk, r) ==
    \/ DeliverResolve(tk, r) /\ r.st = "ok" /\ r.completed
    \/ DeliverStatus(tk, r) /\ r.st = "ok" /\ r.info
    \/ DeliverComplete(tk, r) /\ r.st = "ok"

\* C35: a step that handles a completing response records the artifact that
\* response carries, which is the artifact of the tracked session, and the
\* recorded result changes in no other step.
C35_ResultOfTrackedSession ==
    [][/\ \A tk \in DOMAIN tasks, r \in Responses :
             Completing(tk, r) =>
                 /\ currentResult' = r.result
                 /\ sessionId # 0 /\ r.result = Artifact(sessionId)
       /\ currentResult' # currentResult =>
             \E tk \in DOMAIN tasks, r \in Responses : Completing(tk, r)]_vars

\* C36: the session id changes only when a start succeeds, to the id the
\* resolver returned, and when the resolver acknowledges a confirmed cancel.
C36_SessionIdImmutable ==
    [][sessionId' # sessionId =>
          \E tk \in DOMAIN tasks, r \in Responses :
              \/ DeliverStart(tk, r) /\ r.st = "ok" /\ sessionId' = r.sid
              \/ DeliverCancel(tk, r) /\ r.st = "ok" /\ sessionId' = 0]_vars

\* the fields of a mapping as a set of key and value pairs
FieldSet(o) == {o.fields[i] : i \in 1..Len(o.fields)}

\* two option values are structurally equal: scalars of one type with the same
\* value, or mappings with the same fields and values in any order
StructurallyEqual(o, d) ==
    /\ o.tag = d.tag
    /\ IF o.tag = "obj" THEN FieldSet(o) = FieldSet(d) ELSE o.s = d.s /\ o.n = d.n

\* C37: an option button built for a decision that has a default option is
\* marked as recommended exactly when the option is structurally equal to the
\* default option.
C37_MarkIffStructurallyEqual ==
    (optionBtn.built /\ optionBtn.default_option # Null) =>
        (optionBtn.marked <=> StructurallyEqual(optionBtn.option, optionBtn.default_option))

\* C34: every session the resolver has started eventually leaves the active
\* state: it is completed or cancelled.
C34_DrivenToTerminal ==
    \A s \in SessionIds : (Known(s) ~> (Known(s) /\ remote[s].status # "active"))

====
